---- MODULE Spec2Model ----
(***************************************************************************)
(* Model of the onecondition package: the validate module                  *)
(* (src/src/onecondition/validate.py), the Test and Validate classes of    *)
(* the package root (src/src/onecondition/__init__.py), and the predicate  *)
(* module onecondition.test that validate.py imports.                      *)
(*                                                                         *)
(* Python values are records [t, n, s]: t the name of the value's class,   *)
(* n its numeric value, s its text (a sequence of one-character strings).  *)
(* Messages are sequences of one-character strings as well.                *)
(***************************************************************************)
EXTENDS Integers, Sequences, FiniteSets, TLC

\* ---------------------------------------------------------------- bounds
\* integers passed to the functions are -MaxInt .. MaxInt
MaxInt == 2
\* strings passed to the functions have at most MaxStrLen characters
MaxStrLen == 2

\* ------------------------------------------------------ the value universe
Alphabet == {"a", "'", "\""}

Strings == UNION {[1..k -> Alphabet] : k \in 0..MaxStrLen}

PyNone == [t |-> "NoneType", n |-> 0, s |-> <<>>]

PyInt(i) == [t |-> "int", n |-> i, s |-> <<>>]

PyBool(b) == [t |-> "bool", n |-> IF b THEN 1 ELSE 0, s |-> <<>>]

PyStr(chars) == [t |-> "str", n |-> 0, s |-> chars]

\* an exception object constructed with one string argument
PyExc(cls, chars) == [t |-> cls, n |-> 0, s |-> chars]

ExcClasses == {"ValueError", "TypeError", "TestError"}

Numbers == {PyInt(i) : i \in -MaxInt..MaxInt} \cup {PyBool(b) : b \in BOOLEAN}

Values == {PyNone} \cup Numbers \cup {PyStr(c) : c \in Strings}
          \cup {PyExc(c, <<"T","e","s","t">>) : c \in ExcClasses}

\* ------------------------------------------------------ the class hierarchy
Types == {"object", "NoneType", "int", "bool", "str", "BaseException",
          "Exception", "ValueError", "TypeError", "TestError"}

\* the direct base class of every class but object
Base == [c \in Types \ {"object"} |->
           CASE c = "bool" -> "int"
             [] c = "Exception" -> "BaseException"
             [] c = "ValueError" -> "Exception"
             [] c = "TypeError" -> "Exception"
             [] c = "TestError" -> "ValueError"
             [] OTHER -> "object"]

RECURSIVE IsSubclass(_, _)
IsSubclass(sub, cls) ==
    IF sub = cls THEN TRUE
    ELSE IF sub = "object" THEN FALSE
    ELSE IsSubclass(Base[sub], cls)

\* type(value)
TypeOf(value) == value.t

\* isinstance(value, value_type)
IsInstance(value, value_type) == IsSubclass(TypeOf(value), value_type)

\* ------------------------------------------------------------- rendering
DigitChar == [d \in 0..9 |-> CASE d = 0 -> "0" [] d = 1 -> "1" [] d = 2 -> "2"
                               [] d = 3 -> "3" [] d = 4 -> "4" [] d = 5 -> "5"
                               [] d = 6 -> "6" [] d = 7 -> "7" [] d = 8 -> "8"
                               [] d = 9 -> "9"]

RECURSIVE Digits(_)
Digits(i) == IF i < 10 THEN <<DigitChar[i]>>
             ELSE Digits(i \div 10) \o <<DigitChar[i % 10]>>

\* int.__repr__
IntRepr(i) == IF i < 0 THEN <<"-">> \o Digits(-i) ELSE Digits(i)

HasChar(chars, c) == \E i \in 1..Len(chars) : chars[i] = c

\* the quote character str.__repr__ encloses the text in
QuoteOf(chars) == IF HasChar(chars, "'") /\ ~HasChar(chars, "\"") THEN "\"" ELSE "'"

RECURSIVE Escaped(_, _)
Escaped(chars, quote) ==
    IF chars = <<>> THEN <<>>
    ELSE (IF Head(chars) = "\\" \/ Head(chars) = quote
          THEN <<"\\", Head(chars)>> ELSE <<Head(chars)>>)
         \o Escaped(Tail(chars), quote)

\* str.__repr__
StrRepr(chars) == <<QuoteOf(chars)>> \o Escaped(chars, QuoteOf(chars)) \o <<QuoteOf(chars)>>

\* cls.__name__
ClassName == [c \in Types |->
                CASE c = "object" -> <<"o","b","j","e","c","t">>
                  [] c = "NoneType" -> <<"N","o","n","e","T","y","p","e">>
                  [] c = "int" -> <<"i","n","t">>
                  [] c = "bool" -> <<"b","o","o","l">>
                  [] c = "str" -> <<"s","t","r">>
                  [] c = "BaseException" -> <<"B","a","s","e","E","x","c","e","p","t","i","o","n">>
                  [] c = "Exception" -> <<"E","x","c","e","p","t","i","o","n">>
                  [] c = "ValueError" -> <<"V","a","l","u","e","E","r","r","o","r">>
                  [] c = "TypeError" -> <<"T","y","p","e","E","r","r","o","r">>
                  [] c = "TestError" -> <<"T","e","s","t","E","r","r","o","r">>]

\* the module whose code defines class TestError: the caller's own script, or
\* the validate module when its doctests run as module validate or, through
\* tests/test_doctests.py, as module onecondition.validate
VARIABLE definer

DefiningModules == {"__main__", "validate", "onecondition.validate"}

\* cls.__module__ followed by a dot, for a class defined in the module
ModulePrefix == [m \in DefiningModules |->
                   CASE m = "__main__" -> <<"_","_","m","a","i","n","_","_",".">>
                     [] m = "validate" -> <<"v","a","l","i","d","a","t","e",".">>
                     [] m = "onecondition.validate" -> <<"o","n","e","c","o","n","d","i","t","i","o","n",".","v","a","l","i","d","a","t","e",".">>]

\* the module prefix of a class defined outside builtins
ClassModule == [c \in Types |-> IF c = "TestError" THEN ModulePrefix[definer] ELSE <<>>]

\* type.__repr__, what f"{value_type}" and f"{type(value)}" put in a message
TypeRepr(cls) == <<"<","c","l","a","s","s"," ","'">> \o ClassModule[cls] \o ClassName[cls] \o <<"'",">">>

\* repr(value)
Repr(value) ==
    CASE value.t = "NoneType" -> <<"N","o","n","e">>
      [] value.t = "int" -> IntRepr(value.n)
      [] value.t = "bool" -> (IF value.n = 1 THEN <<"T","r","u","e">> ELSE <<"F","a","l","s","e">>)
      [] value.t = "str" -> StrRepr(value.s)
      [] OTHER -> ClassName[value.t] \o <<"(">> \o StrRepr(value.s) \o <<")">>

\* str(value), what f"{value}" puts in a message
Str(value) ==
    CASE value.t = "NoneType" -> <<"N","o","n","e">>
      [] value.t = "int" -> IntRepr(value.n)
      [] value.t = "bool" -> (IF value.n = 1 THEN <<"T","r","u","e">> ELSE <<"F","a","l","s","e">>)
      [] OTHER -> value.s

\* ------------------------------------------------- outcomes and exceptions
NoException == [cls |-> "", message |-> <<>>, args |-> <<>>]

\* the call returned the value
Return(value) == [value |-> value, kind |-> "return", exc |-> NoException]

\* the call raised the exception
Raise(exc) == [value |-> PyNone, kind |-> "raise", exc |-> exc]

\* the classes of the errors the package defines, each a ValueError
ErrorBase == [c \in {"validate.ValidationError", "onecondition.ValidationError"} |-> "ValueError"]

\* issubclass for an error class of the package
ErrorIsSubclass(cls, base) == cls = base \/ IsSubclass(ErrorBase[cls], base)

\* validate.ValidationError with the assignment to self.message left out
validate_ValidationError_unset(message) ==
    [cls |-> "validate.ValidationError", message |-> <<>>, args |-> <<message>>]

\* validate.ValidationError(message)
validate_ValidationError(message) ==
    [cls |-> "validate.ValidationError", message |-> message, args |-> <<message>>]

\* onecondition.ValidationError(message)
ValidationError(message) ==
    [cls |-> "onecondition.ValidationError", message |-> message, args |-> <<message>>]

\* ------------------------------------- onecondition.test, the predicate set
test_none(value) == value = PyNone

test_specific_type(value, value_type) == TypeOf(value) = value_type

test_instance(value, value_type) == IsInstance(value, value_type)

test_zero(value) == value.n = 0

test_positive(value) == value.n > 0

test_negative(value) == value.n < 0

test_range_inclusive(value, minimum, maximum) == minimum.n <= value.n /\ value.n <= maximum.n

test_range_non_inclusive(value, minimum, maximum) == minimum.n < value.n /\ value.n < maximum.n

test_eq(first, second) == first.n = second.n

test_gt(first, second) == first.n > second.n

test_gte(first, second) == first.n >= second.n

test_lt(first, second) == first.n < second.n

test_lte(first, second) == first.n <= second.n

\* ------------------------------------------- class Test of the package root
Test_none(value) == value = PyNone

\* Test.type deciding by isinstance
Test_type_isinstance(value, value_type) == IsInstance(value, value_type)

Test_type(value, value_type) == TypeOf(value) = value_type

Test_instance(value, value_type) == IsInstance(value, value_type)

Test_zero(value) == value.n = 0

\* Test.positive counting zero as positive
Test_positive_or_zero(value) == value.n >= 0

Test_positive(value) == value.n > 0

Test_negative(value) == value.n < 0

\* Test.range_inclusive with the lower bound excluded
Test_range_inclusive_open(value, minimum, maximum) == minimum.n < value.n /\ value.n <= maximum.n

Test_range_inclusive(value, minimum, maximum) == minimum.n <= value.n /\ value.n <= maximum.n

\* Test.range_non_inclusive accepting the bounds in either order
Test_range_non_inclusive_unordered(value, minimum, maximum) ==
    \/ (minimum.n < value.n /\ value.n < maximum.n)
    \/ (maximum.n < value.n /\ value.n < minimum.n)

Test_range_non_inclusive(value, minimum, maximum) == minimum.n < value.n /\ value.n < maximum.n

Test_eq(first, second) == first.n = second.n

Test_gt(first, second) == first.n > second.n

Test_lte(first, second) == first.n <= second.n

Test_lt(first, second) == first.n < second.n

Test_gte(first, second) == first.n >= second.n

\* ------------------------------------------------ the validate module
validate_none(value) ==
    IF ~test_none(value)
    THEN Raise(validate_ValidationError(<<"V","a","l","u","e"," ","'">> \o Repr(value) \o <<"'"," ","m","u","s","t"," ","b","e"," ","N","o","n","e">>))
    ELSE Return(PyNone)

validate_not_none(value) ==
    IF test_none(value)
    THEN Raise(validate_ValidationError(<<"V","a","l","u","e"," ","m","u","s","t"," ","n","o","t"," ","b","e"," ","N","o","n","e">>))
    ELSE Return(PyNone)

validate_specific_type(value, value_type) ==
    IF ~test_specific_type(value, value_type)
    THEN Raise(validate_ValidationError(<<"V","a","l","u","e"," ","'">> \o Repr(value) \o <<"'"," ","m","u","s","t"," ","b","e"," ","o","f"," ","t","y","p","e"," ">> \o TypeRepr(value_type) \o <<","," ","n","o","t"," ">> \o TypeRepr(TypeOf(value))))
    ELSE Return(PyNone)

validate_not_specific_type(value, value_type) ==
    IF test_specific_type(value, value_type)
    THEN Raise(validate_ValidationError(<<"V","a","l","u","e"," ","'">> \o Repr(value) \o <<"'"," ","m","u","s","t"," ","b","e"," ","n","o","t"," ","o","f"," ","t","y","p","e"," ">> \o TypeRepr(value_type)))
    ELSE Return(PyNone)

validate_instance(value, value_type) ==
    IF ~test_instance(value, value_type)
    THEN Raise(validate_ValidationError(<<"V","a","l","u","e"," ","'">> \o Repr(value) \o <<"'"," ","m","u","s","t"," ","b","e"," ","a","n"," ","i","n","s","t","a","n","c","e"," ","o","f"," ">> \o TypeRepr(value_type) \o <<","," ","n","o","t"," ","a"," ">> \o TypeRepr(TypeOf(value))))
    ELSE Return(PyNone)

validate_not_instance(value, value_type) ==
    IF test_instance(value, value_type)
    THEN Raise(validate_ValidationError(<<"V","a","l","u","e"," ","'">> \o Repr(value) \o <<"'"," ","m","u","s","t"," ","n","o","t"," ","b","e"," ","a","n"," ","i","n","s","t","a","n","c","e"," ","o","f"," ">> \o TypeRepr(value_type)))
    ELSE Return(PyNone)

validate_zero(value) ==
    IF ~test_zero(value)
    THEN Raise(validate_ValidationError(<<"V","a","l","u","e"," ","'">> \o Repr(value) \o <<"'"," ","m","u","s","t"," ","b","e"," ","z","e","r","o">>))
    ELSE Return(PyNone)

validate_not_zero(value) ==
    IF test_zero(value)
    THEN Raise(validate_ValidationError(<<"V","a","l","u","e"," ","'">> \o Repr(value) \o <<"'"," ","m","u","s","t"," ","n","o","t"," ","b","e"," ","z","e","r","o">>))
    ELSE Return(PyNone)

\* validate.positive with the negation of its guard dropped
validate_positive_unnegated(value) ==
    IF test_positive(value)
    THEN Raise(validate_ValidationError(<<"V","a","l","u","e"," ","'">> \o Repr(value) \o <<"'"," ","m","u","s","t"," ","b","e"," ","p","o","s","i","t","i","v","e"," ","(","n","o","n","-","z","e","r","o",")">>))
    ELSE Return(PyNone)

validate_positive(value) ==
    IF ~test_positive(value)
    THEN Raise(validate_ValidationError(<<"V","a","l","u","e"," ","'">> \o Repr(value) \o <<"'"," ","m","u","s","t"," ","b","e"," ","p","o","s","i","t","i","v","e"," ","(","n","o","n","-","z","e","r","o",")">>))
    ELSE Return(PyNone)

validate_not_positive(value) ==
    IF test_positive(value)
    THEN Raise(validate_ValidationError(<<"V","a","l","u","e"," ","'">> \o Repr(value) \o <<"'"," ","m","u","s","t"," ","n","o","t"," ","b","e"," ","p","o","s","i","t","i","v","e"," ","(","n","o","n","-","z","e","r","o",")">>))
    ELSE Return(PyNone)

validate_negative(value) ==
    IF ~test_negative(value)
    THEN Raise(validate_ValidationError(<<"V","a","l","u","e"," ","'">> \o Repr(value) \o <<"'"," ","m","u","s","t"," ","b","e"," ","n","e","g","a","t","i","v","e"," ","(","n","o","n","-","z","e","r","o",")">>))
    ELSE Return(PyNone)

validate_not_negative(value) ==
    IF test_negative(value)
    THEN Raise(validate_ValidationError(<<"V","a","l","u","e"," ","'">> \o Repr(value) \o <<"'"," ","m","u","s","t"," ","n","o","t"," ","b","e"," ","n","e","g","a","t","i","v","e"," ","(","n","o","n","-","z","e","r","o",")">>))
    ELSE Return(PyNone)

validate_range_inclusive(value, minimum, maximum) ==
    IF ~test_range_inclusive(value, minimum, maximum)
    THEN Raise(validate_ValidationError(<<"V","a","l","u","e"," ","'">> \o Repr(value) \o <<"'"," ","m","u","s","t"," ","b","e"," ","b","e","t","w","e","e","n"," ">> \o Str(minimum) \o <<" ","a","n","d"," ">> \o Str(maximum) \o <<" ","(","i","n","c","l","u","s","i","v","e",")">>))
    ELSE Return(PyNone)

validate_not_range_inclusive(value, minimum, maximum) ==
    IF test_range_inclusive(value, minimum, maximum)
    THEN Raise(validate_ValidationError(<<"V","a","l","u","e"," ","'">> \o Repr(value) \o <<"'"," ","m","u","s","t"," ","n","o","t"," ","b","e"," ","b","e","t","w","e","e","n"," ">> \o Str(minimum) \o <<" ","a","n","d"," ">> \o Str(maximum) \o <<" ","(","i","n","c","l","u","s","i","v","e",")">>))
    ELSE Return(PyNone)

validate_range_non_inclusive(value, minimum, maximum) ==
    IF ~test_range_non_inclusive(value, minimum, maximum)
    THEN Raise(validate_ValidationError(<<"V","a","l","u","e"," ","'">> \o Repr(value) \o <<"'"," ","m","u","s","t"," ","b","e"," ","b","e","t","w","e","e","n"," ">> \o Str(minimum) \o <<" ","a","n","d"," ">> \o Str(maximum) \o <<" ","(","n","o","n","-","i","n","c","l","u","s","i","v","e",")">>))
    ELSE Return(PyNone)

validate_not_range_non_inclusive(value, minimum, maximum) ==
    IF test_range_non_inclusive(value, minimum, maximum)
    THEN Raise(validate_ValidationError(<<"V","a","l","u","e"," ","'">> \o Repr(value) \o <<"'"," ","m","u","s","t"," ","n","o","t"," ","b","e"," ","b","e","t","w","e","e","n"," ">> \o Str(minimum) \o <<" ","a","n","d"," ">> \o Str(maximum) \o <<" ","(","n","o","n","-","i","n","c","l","u","s","i","v","e",")">>))
    ELSE Return(PyNone)

validate_eq(first, second) ==
    IF ~test_eq(first, second)
    THEN Raise(validate_ValidationError(<<"V","a","l","u","e"," ","'">> \o Repr(first) \o <<"'"," ","m","u","s","t"," ","b","e"," ","e","q","u","a","l"," ","t","o"," ","'">> \o Str(second) \o <<"'">>))
    ELSE Return(PyNone)

validate_neq(first, second) ==
    IF test_eq(first, second)
    THEN Raise(validate_ValidationError(<<"V","a","l","u","e"," ","'">> \o Repr(first) \o <<"'"," ","m","u","s","t"," ","n","o","t"," ","b","e"," ","e","q","u","a","l"," ","t","o"," ","'">> \o Str(second) \o <<"'">>))
    ELSE Return(PyNone)

validate_gt(first, second) ==
    IF ~test_gt(first, second)
    THEN Raise(validate_ValidationError(<<"V","a","l","u","e"," ","'">> \o Repr(first) \o <<"'"," ","m","u","s","t"," ","b","e"," ","g","r","e","a","t","e","r"," ","t","h","a","n"," ","'">> \o Str(second) \o <<"'">>))
    ELSE Return(PyNone)

validate_lt(first, second) ==
    IF ~test_lt(first, second)
    THEN Raise(validate_ValidationError(<<"V","a","l","u","e"," ","'">> \o Repr(first) \o <<"'"," ","m","u","s","t"," ","b","e"," ","l","e","s","s"," ","t","h","a","n"," ","'">> \o Str(second) \o <<"'">>))
    ELSE Return(PyNone)

validate_gte(first, second) ==
    IF ~test_gte(first, second)
    THEN Raise(validate_ValidationError(<<"V","a","l","u","e"," ","'">> \o Repr(first) \o <<"'"," ","m","u","s","t"," ","b","e"," ","g","r","e","a","t","e","r"," ","t","h","a","n"," ","o","r"," ","e","q","u","a","l"," ","t","o"," ","'">> \o Str(second) \o <<"'">>))
    ELSE Return(PyNone)

validate_lte(first, second) ==
    IF ~test_lte(first, second)
    THEN Raise(validate_ValidationError(<<"V","a","l","u","e"," ","'">> \o Repr(first) \o <<"'"," ","m","u","s","t"," ","b","e"," ","l","e","s","s"," ","t","h","a","n"," ","o","r"," ","e","q","u","a","l"," ","t","o"," ","'">> \o Str(second) \o <<"'">>))
    ELSE Return(PyNone)

\* --------------------------------------- class Validate of the package root
Validate_none(value) ==
    IF Test_none(value)
    THEN Raise(ValidationError(<<"V","a","l","u","e"," ","'">> \o Str(value) \o <<"'"," ","m","u","s","t"," ","b","e"," ","N","o","n","e">>))
    ELSE Return(PyNone)

\* Validate.not_none raising when the value is None
Validate_not_none_on_none(value) ==
    IF Test_none(value)
    THEN Raise(ValidationError(<<"V","a","l","u","e"," ","m","u","s","t"," ","n","o","t"," ","b","e"," ","N","o","n","e">>))
    ELSE Return(PyNone)

Validate_not_none(value) ==
    IF ~Test_none(value)
    THEN Raise(ValidationError(<<"V","a","l","u","e"," ","m","u","s","t"," ","n","o","t"," ","b","e"," ","N","o","n","e">>))
    ELSE Return(PyNone)

Validate_type(value, value_type) ==
    IF ~Test_type(value, value_type)
    THEN Raise(ValidationError(<<"V","a","l","u","e"," ","'">> \o Str(value) \o <<"'"," ","m","u","s","t"," ","b","e"," ","o","f"," ","t","y","p","e"," ">> \o TypeRepr(value_type) \o <<","," ","n","o","t"," ">> \o TypeRepr(TypeOf(value))))
    ELSE Return(PyNone)

Validate_not_type(value, value_type) ==
    IF Test_type(value, value_type)
    THEN Raise(ValidationError(<<"V","a","l","u","e"," ","'">> \o Str(value) \o <<"'"," ","m","u","s","t"," ","b","e"," ","n","o","t"," ","o","f"," ","t","y","p","e"," ">> \o TypeRepr(value_type)))
    ELSE Return(PyNone)

Validate_instance(value, value_type) ==
    IF ~Test_instance(value, value_type)
    THEN Raise(ValidationError(<<"V","a","l","u","e"," ","'">> \o Str(value) \o <<"'"," ","m","u","s","t"," ","b","e"," ","a","n"," ","i","n","s","t","a","n","c","e"," ","o","f"," ">> \o TypeRepr(value_type) \o <<","," ","n","o","t"," ","a"," ">> \o TypeRepr(TypeOf(value))))
    ELSE Return(PyNone)

Validate_not_instance(value, value_type) ==
    IF Test_instance(value, value_type)
    THEN Raise(ValidationError(<<"V","a","l","u","e"," ","'">> \o Str(value) \o <<"'"," ","m","u","s","t"," ","n","o","t"," ","b","e"," ","a","n"," ","i","n","s","t","a","n","c","e"," ","o","f"," ">> \o TypeRepr(value_type)))
    ELSE Return(PyNone)

Validate_zero(value) ==
    IF ~Test_zero(value)
    THEN Raise(ValidationError(<<"V","a","l","u","e"," ","'">> \o Str(value) \o <<"'"," ","m","u","s","t"," ","b","e"," ","z","e","r","o">>))
    ELSE Return(PyNone)

Validate_not_zero(value) ==
    IF Test_zero(value)
    THEN Raise(ValidationError(<<"V","a","l","u","e"," ","'">> \o Str(value) \o <<"'"," ","m","u","s","t"," ","n","o","t"," ","b","e"," ","z","e","r","o">>))
    ELSE Return(PyNone)

Validate_positive(value) ==
    IF ~Test_positive(value)
    THEN Raise(ValidationError(<<"V","a","l","u","e"," ","'">> \o Str(value) \o <<"'"," ","m","u","s","t"," ","b","e"," ","p","o","s","i","t","i","v","e"," ","(","n","o","n","-","z","e","r","o",")">>))
    ELSE Return(PyNone)

Validate_not_positive(value) ==
    IF Test_positive(value)
    THEN Raise(ValidationError(<<"V","a","l","u","e"," ","'">> \o Str(value) \o <<"'"," ","m","u","s","t"," ","n","o","t"," ","b","e"," ","p","o","s","i","t","i","v","e">>))
    ELSE Return(PyNone)

Validate_negative(value) ==
    IF ~Test_negative(value)
    THEN Raise(ValidationError(<<"V","a","l","u","e"," ","'">> \o Str(value) \o <<"'"," ","m","u","s","t"," ","b","e"," ","n","e","g","a","t","i","v","e"," ","(","n","o","n","-","z","e","r","o",")">>))
    ELSE Return(PyNone)

Validate_not_negative(value) ==
    IF Test_negative(value)
    THEN Raise(ValidationError(<<"V","a","l","u","e"," ","'">> \o Str(value) \o <<"'"," ","m","u","s","t"," ","n","o","t"," ","b","e"," ","n","e","g","a","t","i","v","e">>))
    ELSE Return(PyNone)

Validate_range_inclusive(value, minimum, maximum) ==
    IF ~Test_range_inclusive(value, minimum, maximum)
    THEN Raise(ValidationError(<<"V","a","l","u","e"," ","'">> \o Str(value) \o <<"'"," ","m","u","s","t"," ","b","e"," ","b","e","t","w","e","e","n"," ">> \o Str(minimum) \o <<" ","a","n","d"," ">> \o Str(maximum) \o <<" ","(","i","n","c","l","u","s","i","v","e",")">>))
    ELSE Return(PyNone)

Validate_not_range_inclusive(value, minimum, maximum) ==
    IF Test_range_inclusive(value, minimum, maximum)
    THEN Raise(ValidationError(<<"V","a","l","u","e"," ","'">> \o Str(value) \o <<"'"," ","m","u","s","t"," ","n","o","t"," ","b","e"," ","b","e","t","w","e","e","n"," ">> \o Str(minimum) \o <<" ","a","n","d"," ">> \o Str(maximum) \o <<" ","(","i","n","c","l","u","s","i","v","e",")">>))
    ELSE Return(PyNone)

Validate_range_non_inclusive(value, minimum, maximum) ==
    IF ~Test_range_non_inclusive(value, minimum, maximum)
    THEN Raise(ValidationError(<<"V","a","l","u","e"," ","'">> \o Str(value) \o <<"'"," ","m","u","s","t"," ","b","e"," ","b","e","t","w","e","e","n"," ">> \o Str(minimum) \o <<" ","a","n","d"," ">> \o Str(maximum) \o <<" ","(","n","o","n","-","i","n","c","l","u","s","i","v","e",")">>))
    ELSE Return(PyNone)

Validate_not_range_non_inclusive(value, minimum, maximum) ==
    IF Test_range_non_inclusive(value, minimum, maximum)
    THEN Raise(ValidationError(<<"V","a","l","u","e"," ","'">> \o Str(value) \o <<"'"," ","m","u","s","t"," ","n","o","t"," ","b","e"," ","b","e","t","w","e","e","n"," ">> \o Str(minimum) \o <<" ","a","n","d"," ">> \o Str(maximum) \o <<" ","(","n","o","n","-","i","n","c","l","u","s","i","v","e",")">>))
    ELSE Return(PyNone)

Validate_eq(first, second) ==
    IF ~Test_eq(first, second)
    THEN Raise(ValidationError(<<"V","a","l","u","e"," ","'">> \o Str(first) \o <<"'"," ","m","u","s","t"," ","b","e"," ","e","q","u","a","l"," ","t","o"," ","'">> \o Str(second) \o <<"'">>))
    ELSE Return(PyNone)

Validate_neq(first, second) ==
    IF Test_eq(first, second)
    THEN Raise(ValidationError(<<"V","a","l","u","e"," ","'">> \o Str(first) \o <<"'"," ","m","u","s","t"," ","n","o","t"," ","b","e"," ","e","q","u","a","l"," ","t","o"," ","'">> \o Str(second) \o <<"'">>))
    ELSE Return(PyNone)

Validate_gt(first, second) ==
    IF ~Test_gt(first, second)
    THEN Raise(ValidationError(<<"V","a","l","u","e"," ","'">> \o Str(first) \o <<"'"," ","m","u","s","t"," ","b","e"," ","g","r","e","a","t","e","r"," ","t","h","a","n"," ","'">> \o Str(second) \o <<"'">>))
    ELSE Return(PyNone)

Validate_lte(first, second) ==
    IF ~Test_lte(first, second)
    THEN Raise(ValidationError(<<"V","a","l","u","e"," ","'">> \o Str(first) \o <<"'"," ","m","u","s","t"," ","b","e"," ","l","e","s","s"," ","t","h","a","n"," ","o","r"," ","e","q","u","a","l"," ","t","o"," ","'">> \o Str(second) \o <<"'">>))
    ELSE Return(PyNone)

Validate_lt(first, second) ==
    IF ~Test_lt(first, second)
    THEN Raise(ValidationError(<<"V","a","l","u","e"," ","'">> \o Str(first) \o <<"'"," ","m","u","s","t"," ","b","e"," ","l","e","s","s"," ","t","h","a","n"," ","'">> \o Str(second) \o <<"'">>))
    ELSE Return(PyNone)

Validate_gte(first, second) ==
    IF ~Test_gte(first, second)
    THEN Raise(ValidationError(<<"V","a","l","u","e"," ","'">> \o Str(first) \o <<"'"," ","m","u","s","t"," ","b","e"," ","g","r","e","a","t","e","r"," ","t","h","a","n"," ","o","r"," ","e","q","u","a","l"," ","t","o"," ","'">> \o Str(second) \o <<"'">>))
    ELSE Return(PyNone)

\* ------------------------------------------------------------ the callers
VARIABLES call, outcome, caught

vars == <<call, outcome, caught, definer>>

\* a call: the function and its arguments (an absent argument is PyNone or "")
Call(a, f, v, vt, mn, mx, sec) ==
    [value |-> v, value_type |-> vt, minimum |-> mn, maximum |-> mx,
     second |-> sec, api |-> a, fn |-> f]

AnyFns == {"none", "not_none"}

SignFns == {"zero", "not_zero", "positive", "not_positive", "negative", "not_negative"}

RangeFns == {"range_inclusive", "not_range_inclusive",
             "range_non_inclusive", "not_range_non_inclusive"}

CompareFns == {"eq", "neq", "gt", "lt", "gte", "lte"}

\* the function of the validate module that a call names, applied to the call's arguments
validate_apply(c) ==
    CASE c.fn = "none" -> validate_none(c.value)
      [] c.fn = "not_none" -> validate_not_none(c.value)
      [] c.fn = "specific_type" -> validate_specific_type(c.value, c.value_type)
      [] c.fn = "not_specific_type" -> validate_not_specific_type(c.value, c.value_type)
      [] c.fn = "instance" -> validate_instance(c.value, c.value_type)
      [] c.fn = "not_instance" -> validate_not_instance(c.value, c.value_type)
      [] c.fn = "zero" -> validate_zero(c.value)
      [] c.fn = "not_zero" -> validate_not_zero(c.value)
      [] c.fn = "positive" -> validate_positive(c.value)
      [] c.fn = "not_positive" -> validate_not_positive(c.value)
      [] c.fn = "negative" -> validate_negative(c.value)
      [] c.fn = "not_negative" -> validate_not_negative(c.value)
      [] c.fn = "range_inclusive" -> validate_range_inclusive(c.value, c.minimum, c.maximum)
      [] c.fn = "not_range_inclusive" -> validate_not_range_inclusive(c.value, c.minimum, c.maximum)
      [] c.fn = "range_non_inclusive" -> validate_range_non_inclusive(c.value, c.minimum, c.maximum)
      [] c.fn = "not_range_non_inclusive" -> validate_not_range_non_inclusive(c.value, c.minimum, c.maximum)
      [] c.fn = "eq" -> validate_eq(c.value, c.second)
      [] c.fn = "neq" -> validate_neq(c.value, c.second)
      [] c.fn = "gt" -> validate_gt(c.value, c.second)
      [] c.fn = "lt" -> validate_lt(c.value, c.second)
      [] c.fn = "gte" -> validate_gte(c.value, c.second)
      [] c.fn = "lte" -> validate_lte(c.value, c.second)

\* the static method of class Validate that a call names, applied to the call's arguments
Validate_apply(c) ==
    CASE c.fn = "none" -> Validate_none(c.value)
      [] c.fn = "not_none" -> Validate_not_none(c.value)
      [] c.fn = "type" -> Validate_type(c.value, c.value_type)
      [] c.fn = "not_type" -> Validate_not_type(c.value, c.value_type)
      [] c.fn = "instance" -> Validate_instance(c.value, c.value_type)
      [] c.fn = "not_instance" -> Validate_not_instance(c.value, c.value_type)
      [] c.fn = "zero" -> Validate_zero(c.value)
      [] c.fn = "not_zero" -> Validate_not_zero(c.value)
      [] c.fn = "positive" -> Validate_positive(c.value)
      [] c.fn = "not_positive" -> Validate_not_positive(c.value)
      [] c.fn = "negative" -> Validate_negative(c.value)
      [] c.fn = "not_negative" -> Validate_not_negative(c.value)
      [] c.fn = "range_inclusive" -> Validate_range_inclusive(c.value, c.minimum, c.maximum)
      [] c.fn = "not_range_inclusive" -> Validate_not_range_inclusive(c.value, c.minimum, c.maximum)
      [] c.fn = "range_non_inclusive" -> Validate_range_non_inclusive(c.value, c.minimum, c.maximum)
      [] c.fn = "not_range_non_inclusive" -> Validate_not_range_non_inclusive(c.value, c.minimum, c.maximum)
      [] c.fn = "eq" -> Validate_eq(c.value, c.second)
      [] c.fn = "neq" -> Validate_neq(c.value, c.second)
      [] c.fn = "gt" -> Validate_gt(c.value, c.second)
      [] c.fn = "lte" -> Validate_lte(c.value, c.second)
      [] c.fn = "lt" -> Validate_lt(c.value, c.second)
      [] c.fn = "gte" -> Validate_gte(c.value, c.second)

\* the static method of class Test that a call names, applied to the call's arguments
Test_apply(c) ==
    Return(PyBool(
      CASE c.fn = "none" -> Test_none(c.value)
        [] c.fn = "type" -> Test_type(c.value, c.value_type)
        [] c.fn = "instance" -> Test_instance(c.value, c.value_type)
        [] c.fn = "zero" -> Test_zero(c.value)
        [] c.fn = "positive" -> Test_positive(c.value)
        [] c.fn = "negative" -> Test_negative(c.value)
        [] c.fn = "range_inclusive" -> Test_range_inclusive(c.value, c.minimum, c.maximum)
        [] c.fn = "range_non_inclusive" -> Test_range_non_inclusive(c.value, c.minimum, c.maximum)
        [] c.fn = "eq" -> Test_eq(c.value, c.second)
        [] c.fn = "gt" -> Test_gt(c.value, c.second)
        [] c.fn = "lte" -> Test_lte(c.value, c.second)
        [] c.fn = "lt" -> Test_lt(c.value, c.second)
        [] c.fn = "gte" -> Test_gte(c.value, c.second)))

Apply(c) == CASE c.api = "validate" -> validate_apply(c)
              [] c.api = "Validate" -> Validate_apply(c)
              [] c.api = "Test" -> Test_apply(c)

\* a caller's handler "except ValueError" catches what the call raised
Caught(o) == o.kind = "raise" /\ ErrorIsSubclass(o.exc.cls, "ValueError")

NoCall == Call("", "", PyNone, "", PyNone, PyNone, PyNone)

\* a caller that is not inside a call makes the call and observes its outcome
Invoke(c) ==
    /\ call = NoCall
    /\ call' = c
    /\ outcome' = Apply(c)
    /\ caught' = Caught(Apply(c))
    /\ UNCHANGED definer

Init ==
    /\ call = NoCall
    /\ outcome = Return(PyNone)
    /\ caught = FALSE
    /\ definer \in DefiningModules

\* validate.none, validate.not_none
validate_call_any ==
    \E fn \in AnyFns, value \in Values :
        Invoke(Call("validate", fn, value, "", PyNone, PyNone, PyNone))

\* validate.specific_type .. validate.not_instance
validate_call_typed ==
    \E fn \in {"specific_type", "not_specific_type", "instance", "not_instance"},
       value \in Values, value_type \in Types :
        Invoke(Call("validate", fn, value, value_type, PyNone, PyNone, PyNone))

\* validate.zero .. validate.not_negative
validate_call_sign ==
    \E fn \in SignFns, value \in Numbers :
        Invoke(Call("validate", fn, value, "", PyNone, PyNone, PyNone))

\* validate.range_inclusive .. validate.not_range_non_inclusive
validate_call_range ==
    \E fn \in RangeFns, value \in Numbers, minimum \in Numbers, maximum \in Numbers :
        Invoke(Call("validate", fn, value, "", minimum, maximum, PyNone))

\* validate.eq .. validate.lte
validate_call_compare ==
    \E fn \in CompareFns, first \in Numbers, second \in Numbers :
        Invoke(Call("validate", fn, first, "", PyNone, PyNone, second))

\* Validate.none, Validate.not_none
Validate_call_any ==
    \E fn \in AnyFns, value \in Values :
        Invoke(Call("Validate", fn, value, "", PyNone, PyNone, PyNone))

\* Validate.type .. Validate.not_instance
Validate_call_typed ==
    \E fn \in {"type", "not_type", "instance", "not_instance"},
       value \in Values, value_type \in Types :
        Invoke(Call("Validate", fn, value, value_type, PyNone, PyNone, PyNone))

\* Validate.zero .. Validate.not_negative
Validate_call_sign ==
    \E fn \in SignFns, value \in Numbers :
        Invoke(Call("Validate", fn, value, "", PyNone, PyNone, PyNone))

\* Validate.range_inclusive .. Validate.not_range_non_inclusive
Validate_call_range ==
    \E fn \in RangeFns, value \in Numbers, minimum \in Numbers, maximum \in Numbers :
        Invoke(Call("Validate", fn, value, "", minimum, maximum, PyNone))

\* Validate.eq .. Validate.gte
Validate_call_compare ==
    \E fn \in CompareFns, first \in Numbers, second \in Numbers :
        Invoke(Call("Validate", fn, first, "", PyNone, PyNone, second))

\* Test.none
Test_call_any ==
    \E value \in Values :
        Invoke(Call("Test", "none", value, "", PyNone, PyNone, PyNone))

\* Test.type, Test.instance
Test_call_typed ==
    \E fn \in {"type", "instance"}, value \in Values, value_type \in Types :
        Invoke(Call("Test", fn, value, value_type, PyNone, PyNone, PyNone))

\* Test.zero, Test.positive, Test.negative
Test_call_sign ==
    \E fn \in {"zero", "positive", "negative"}, value \in Numbers :
        Invoke(Call("Test", fn, value, "", PyNone, PyNone, PyNone))

\* Test.range_inclusive, Test.range_non_inclusive
Test_call_range ==
    \E fn \in {"range_inclusive", "range_non_inclusive"},
       value \in Numbers, minimum \in Numbers, maximum \in Numbers :
        Invoke(Call("Test", fn, value, "", minimum, maximum, PyNone))

\* Test.eq .. Test.gte
Test_call_compare ==
    \E fn \in {"eq", "gt", "lte", "lt", "gte"}, first \in Numbers, second \in Numbers :
        Invoke(Call("Test", fn, first, "", PyNone, PyNone, second))

\* the caller has handled the outcome and is ready for its next call
Continue ==
    /\ call # NoCall
    /\ call' = NoCall
    /\ outcome' = Return(PyNone)
    /\ caught' = FALSE
    /\ UNCHANGED definer

Next ==
    \/ validate_call_any
    \/ validate_call_typed
    \/ validate_call_sign
    \/ validate_call_range
    \/ validate_call_compare
    \/ Validate_call_any
    \/ Validate_call_typed
    \/ Validate_call_sign
    \/ Validate_call_range
    \/ Validate_call_compare
    \/ Test_call_any
    \/ Test_call_typed
    \/ Test_call_sign
    \/ Test_call_range
    \/ Test_call_compare
    \/ Continue

Spec == Init /\ [][Next]_vars

TypeOK ==
    /\ call.api \in {"", "validate", "Validate", "Test"}
    /\ outcome.kind \in {"return", "raise"}
    /\ caught \in BOOLEAN
    /\ definer \in DefiningModules

\* ================================================================ claims
\* onecondition.test: the predicate a call of the validate module names,
\* applied to the call's arguments (a negated validator names the predicate it negates)
test_apply(c) ==
    CASE c.fn \in {"none", "not_none"} -> test_none(c.value)
      [] c.fn \in {"specific_type", "not_specific_type"} -> test_specific_type(c.value, c.value_type)
      [] c.fn \in {"instance", "not_instance"} -> test_instance(c.value, c.value_type)
      [] c.fn \in {"zero", "not_zero"} -> test_zero(c.value)
      [] c.fn \in {"positive", "not_positive"} -> test_positive(c.value)
      [] c.fn \in {"negative", "not_negative"} -> test_negative(c.value)
      [] c.fn \in {"range_inclusive", "not_range_inclusive"} -> test_range_inclusive(c.value, c.minimum, c.maximum)
      [] c.fn \in {"range_non_inclusive", "not_range_non_inclusive"} -> test_range_non_inclusive(c.value, c.minimum, c.maximum)
      [] c.fn \in {"eq", "neq"} -> test_eq(c.value, c.second)
      [] c.fn = "gt" -> test_gt(c.value, c.second)
      [] c.fn = "gte" -> test_gte(c.value, c.second)
      [] c.fn = "lt" -> test_lt(c.value, c.second)
      [] c.fn = "lte" -> test_lte(c.value, c.second)

PositiveFns == {"none", "specific_type", "instance", "zero", "positive", "negative",
                "range_inclusive", "range_non_inclusive", "eq", "gt", "gte", "lt", "lte"}

TypedFns == {"specific_type", "not_specific_type", "type", "not_type", "instance", "not_instance"}

IsValidator(c) == c.api \in {"validate", "Validate"}

Returned == outcome.kind = "return"

Raised == outcome.kind = "raise"

\* the text sub occurs in the text msg
Contains(msg, sub) ==
    \E i \in 0..(Len(msg) - Len(sub)) : SubSeq(msg, i + 1, i + Len(sub)) = sub

\* C1: duality law of the validate module: a positive-form validator returns
\* normally iff the predicate of the same name is true of the same arguments,
\* and raises validate.ValidationError iff the predicate is false.
C1_Duality ==
    (call.api = "validate" /\ call.fn \in PositiveFns) =>
        /\ Returned <=> test_apply(call)
        /\ (Raised /\ outcome.exc.cls = "validate.ValidationError") <=> ~test_apply(call)

\* a positive-form validator of the validate module has raised on a false predicate
C1_Witness ==
    /\ call.api = "validate" /\ call.fn = "range_inclusive"
    /\ ~test_apply(call) /\ Raised

\* C2: Validate.none returns normally when the value is None and raises with a
\* message containing "must be None" otherwise; Validate.not_none returns
\* normally when the value is not None and raises when it is None.
C2_Claim ==
    /\ (call.api = "Validate" /\ call.fn = "none") =>
          IF call.value = PyNone THEN Returned
          ELSE Raised /\ Contains(outcome.exc.message, <<"m","u","s","t"," ","b","e"," ","N","o","n","e">>)
    /\ (call.api = "Validate" /\ call.fn = "not_none") =>
          IF call.value = PyNone THEN Raised ELSE Returned

\* the validator that negates the one a call names (gt, gte, lt, lte have none)
PairFn == [f \in {"none", "specific_type", "type", "instance", "zero", "positive",
                  "negative", "range_inclusive", "range_non_inclusive", "eq"} |->
             IF f = "eq" THEN "neq"
             ELSE CASE f = "none" -> "not_none"
                    [] f = "specific_type" -> "not_specific_type"
                    [] f = "type" -> "not_type"
                    [] f = "instance" -> "not_instance"
                    [] f = "zero" -> "not_zero"
                    [] f = "positive" -> "not_positive"
                    [] f = "negative" -> "not_negative"
                    [] f = "range_inclusive" -> "not_range_inclusive"
                    [] f = "range_non_inclusive" -> "not_range_non_inclusive"]

\* the call of the negated validator with the same arguments
Negated(c) == [c EXCEPT !.fn = PairFn[c.fn]]

\* C3: negated pairs have no overlap and no gap: on the arguments of a call of
\* V, exactly one of V and not_V returns normally and the other raises, in the
\* validate module and in class Validate.
C3_NegatedPairs ==
    (IsValidator(call) /\ call.fn \in DOMAIN PairFn) =>
        /\ Returned <=> Apply(Negated(call)).kind = "raise"
        /\ Raised <=> Apply(Negated(call)).kind = "return"

\* Validate.none has raised, so Validate.not_none returns on the same value
C3_Witness ==
    /\ call.api = "Validate" /\ call.fn = "none"
    /\ Raised /\ Apply(Negated(call)).kind = "return"

\* the right-hand side of the range law: v == m or v == M or m < v < M
RangeLaw(c) ==
    \/ c.value.n = c.minimum.n
    \/ c.value.n = c.maximum.n
    \/ (c.minimum.n < c.value.n /\ c.value.n < c.maximum.n)

\* C4 as stated: with no precondition relating m and M, range_inclusive(v, m, M)
\* is true iff v == m or v == M or m < v < M.
C4_Original ==
    (call.api = "Test" /\ call.fn = "range_inclusive") =>
        (outcome.value = PyBool(TRUE) <=> RangeLaw(call))

\* C4 as amended: for m <= M, range_inclusive(v, m, M) is true iff v == m or
\* v == M or m < v < M (and the validators of both APIs return normally
\* exactly then).
C4_RangeInclusive ==
    (call.fn = "range_inclusive" /\ call.minimum.n <= call.maximum.n) =>
        IF call.api = "Test" THEN outcome.value = PyBool(RangeLaw(call))
        ELSE Returned <=> RangeLaw(call)

\* Test.range_inclusive was true of a value on the boundary of a proper range
C4_Witness ==
    /\ call.api = "Test" /\ call.fn = "range_inclusive"
    /\ call.minimum.n < call.maximum.n /\ call.value.n = call.maximum.n
    /\ outcome.value = PyBool(TRUE)

\* the class of the value is a proper subclass of the expected type
ProperSubtype(c) == TypeOf(c.value) # c.value_type /\ IsSubclass(TypeOf(c.value), c.value_type)

\* C5: for an instance s of a proper subtype of T the exact-type predicate is
\* false and the instance predicate true, so type/specific_type raises and
\* not_type/not_specific_type and instance return; and whenever the exact-type
\* predicate is true of (x, T) the instance predicate is true of it.
C5_ExactVsInstance ==
    /\ (call.fn \in TypedFns /\ ProperSubtype(call)) =>
          CASE call.api = "Test" /\ call.fn = "type" -> outcome.value = PyBool(FALSE)
            [] call.api = "Test" /\ call.fn = "instance" -> outcome.value = PyBool(TRUE)
            [] IsValidator(call) /\ call.fn \in {"type", "specific_type"} -> Raised
            [] IsValidator(call) /\ call.fn \in {"not_type", "not_specific_type", "instance"} -> Returned
            [] OTHER -> Raised
    /\ (call.api = "Test" /\ call.fn = "instance" /\ Test_type(call.value, call.value_type)) =>
          outcome.value = PyBool(TRUE)
    /\ (call.api = "Test" /\ call.fn = "type" /\ outcome.value = PyBool(TRUE)) =>
          Test_instance(call.value, call.value_type)

\* Test.type was false of a bool checked against int
C5_Witness ==
    /\ call.api = "Test" /\ call.fn = "type"
    /\ TypeOf(call.value) = "bool" /\ call.value_type = "int"
    /\ outcome.value = PyBool(FALSE)

\* the error class of the API a call belongs to
ErrorClassOf(c) == IF c.api = "validate" THEN "validate.ValidationError"
                   ELSE "onecondition.ValidationError"

\* C6: a failure surfaces as one error of kind ValidationError and no other
\* kind; it is a ValueError, so the caller's handler for ValueError catches it;
\* its message attribute is the message it was constructed with; a call that
\* returns raises nothing, and the predicates of class Test never raise.
C6_ErrorKind ==
    /\ Raised =>
          /\ IsValidator(call)
          /\ outcome.exc.cls = ErrorClassOf(call)
          /\ ErrorIsSubclass(outcome.exc.cls, "ValueError")
          /\ caught
          /\ outcome.exc.args = <<outcome.exc.message>>
          /\ outcome.exc.message # <<>>
    /\ Returned => (outcome.exc = NoException /\ ~caught)
    /\ call.api = "Test" => Returned

\* a validator of class Validate has raised and the ValueError handler caught it
C6_Witness ==
    /\ call.api = "Validate" /\ call.fn = "gt"
    /\ Raised /\ caught /\ outcome.exc.message # <<>>

\* the message names the expected type (type and instance validators) or both
\* bounds (range validators)
EmbedsExpected(c, msg) ==
    /\ c.fn \in TypedFns => Contains(msg, TypeRepr(c.value_type))
    /\ c.fn \in RangeFns => (Contains(msg, Str(c.minimum)) /\ Contains(msg, Str(c.maximum)))

\* C7: whenever any validator raises, not_none included, the message contains
\* the rendered value (its repr or its str), and for type, instance and range
\* validators the expected type or both bounds.
C7_Original ==
    Raised =>
        /\ (Contains(outcome.exc.message, Repr(call.value))
            \/ Contains(outcome.exc.message, Str(call.value)))
        /\ EmbedsExpected(call, outcome.exc.message)

\* C8: when minimum > maximum the range predicates return false and never
\* raise, so not_range_inclusive and not_range_non_inclusive return normally
\* and range_inclusive and range_non_inclusive raise ValidationError.
C8_ViolatedRange ==
    (call.fn \in RangeFns /\ call.minimum.n > call.maximum.n) =>
        CASE call.api = "Test" -> Returned /\ outcome.value = PyBool(FALSE)
          [] call.fn \in {"range_inclusive", "range_non_inclusive"} ->
                Raised /\ outcome.exc.cls = ErrorClassOf(call)
          [] OTHER -> Returned

\* Test.range_non_inclusive was called with minimum > maximum on a value that
\* lies between the two
C8_Witness ==
    /\ call.api = "Test" /\ call.fn = "range_non_inclusive"
    /\ call.minimum.n > call.value.n /\ call.value.n > call.maximum.n
    /\ Returned

\* C10 as stated: the message of validate.none is "Value '", the value and
\* "' must be None", a string value being rendered with no quote characters of
\* its own, so the empty string gives "Value '' must be None".
C10_Claim ==
    (call.api = "validate" /\ call.fn = "none" /\ call.value.t = "str") =>
        /\ Raised
        /\ outcome.exc.message = <<"V","a","l","u","e"," ","'">> \o call.value.s \o <<"'"," ","m","u","s","t"," ","b","e"," ","N","o","n","e">>

\* the three sign validators
SignTrio == {"zero", "positive", "negative"}

\* the sign validators of the call's API that return normally on the call's value
SignReturning(c) == {f \in SignTrio : Apply([c EXCEPT !.fn = f]).kind = "return"}

\* C11: sign trichotomy: on every numeric value exactly one of zero, positive
\* and negative returns normally; on 0, zero, not_positive and not_negative
\* return normally and positive, negative and not_zero raise ValidationError.
C11_SignTrichotomy ==
    (IsValidator(call) /\ call.fn \in SignFns) =>
        /\ Cardinality(SignReturning(call)) = 1
        /\ call.fn \in SignTrio =>
              (Returned <=> SignReturning(call) = {call.fn})
        /\ call.value.n = 0 =>
              IF call.fn \in {"zero", "not_positive", "not_negative"}
              THEN Returned
              ELSE Raised /\ outcome.exc.cls = ErrorClassOf(call)

\* Validate.positive has raised on 0, where only zero returns
C11_Witness ==
    /\ call.api = "Validate" /\ call.fn = "positive"
    /\ call.value = PyInt(0) /\ Raised
    /\ SignReturning(call) = {"zero"}

====
